---- MODULE Spec2Model ----
(***************************************************************************)
(* Model of src/postprocessing_functions.py: calc_velocity, the two        *)
(* offset_stats functions, get_stats_in_aoi and stack_rasters.             *)
(*                                                                         *)
(* A numpy float is modelled as a fixed-point number: a record that is     *)
(* either NaN, an infinity, or a whole number v of quanta, Q quanta to the *)
(* unit.  Every arithmetic step rounds its result to the nearest quantum,  *)
(* as IEEE arithmetic rounds to the nearest representable float.           *)
(* An array is a record [h, w, d]: its shape and its values in row-major   *)
(* order.                                                                  *)
(***************************************************************************)
EXTENDS Integers, Sequences, FiniteSets, TLC

\* quanta per unit (two decimal digits of fraction)
Q == 100

\* the no-data value of the disparity rasters
NoData == -9999

NaN == [t |-> "nan", v |-> 0]
PInf == [t |-> "inf", v |-> 1]
NInf == [t |-> "inf", v |-> -1]
F(n) == [t |-> "num", v |-> n]
\* a whole number of units (3 -> 3.0)
U(n) == F(n * Q)

IsNaN(x) == x.t = "nan"
IsNum(x) == x.t = "num"
IsInf(x) == x.t = "inf"

Abs(n) == IF n < 0 THEN -n ELSE n
Sign(n) == IF n < 0 THEN -1 ELSE IF n > 0 THEN 1 ELSE 0

\* a / b rounded to the nearest integer (halves away from zero), b > 0
RoundDiv(a, b) == Sign(a) * ((2 * Abs(a) + b) \div (2 * b))

RECURSIVE FloorSqrtIn(_, _, _)
FloorSqrtIn(n, lo, hi) ==
    IF lo >= hi THEN lo
    ELSE LET mid == (lo + hi + 1) \div 2
         IN  IF mid * mid <= n THEN FloorSqrtIn(n, mid, hi)
             ELSE FloorSqrtIn(n, lo, mid - 1)

\* sqrt(n) rounded to the nearest integer, 0 <= n < 2^31
RoundSqrt(n) ==
    LET r == FloorSqrtIn(n, 0, 46340)
    IN  IF n - r * r > r THEN r + 1 ELSE r

\* ---- float arithmetic (numpy semantics: NaN propagates, x/0 is inf or NaN)

FNeg(x) == IF IsNum(x) THEN F(-x.v) ELSE IF IsInf(x) THEN [x EXCEPT !.v = -x.v] ELSE NaN

FAdd(x, y) ==
    IF IsNaN(x) \/ IsNaN(y) THEN NaN
    ELSE IF IsInf(x) /\ IsInf(y) THEN (IF x.v = y.v THEN x ELSE NaN)
    ELSE IF IsInf(x) THEN x
    ELSE IF IsInf(y) THEN y
    ELSE F(x.v + y.v)

FSub(x, y) == FAdd(x, FNeg(y))

\* x * k for a Python number k that is a whole number
FMulInt(x, k) ==
    IF IsNaN(x) THEN NaN
    ELSE IF IsInf(x) THEN (IF k = 0 THEN NaN ELSE [x EXCEPT !.v = x.v * Sign(k)])
    ELSE F(x.v * k)

\* x / k for a Python int k; numpy gives inf or NaN for k = 0 and does not raise
FDivInt(x, k) ==
    IF IsNaN(x) THEN NaN
    ELSE IF IsInf(x) THEN (IF k = 0 THEN x ELSE [x EXCEPT !.v = x.v * Sign(k)])
    ELSE IF k = 0 THEN (IF x.v = 0 THEN NaN ELSE IF x.v > 0 THEN PInf ELSE NInf)
    ELSE F(Sign(k) * RoundDiv(x.v, Abs(k)))

\* x / y for two floats
FDiv(x, y) ==
    IF IsNaN(x) \/ IsNaN(y) THEN NaN
    ELSE IF IsInf(y) THEN (IF IsInf(x) THEN NaN ELSE F(0))
    ELSE IF IsInf(x) THEN (IF y.v < 0 THEN FNeg(x) ELSE x)
    ELSE IF y.v = 0 THEN (IF x.v = 0 THEN NaN ELSE IF x.v > 0 THEN PInf ELSE NInf)
    ELSE F(Sign(y.v) * RoundDiv(x.v * Q, Abs(y.v)))

FAbs(x) == IF IsNum(x) THEN F(Abs(x.v)) ELSE IF IsInf(x) THEN PInf ELSE NaN

\* x < 0 as numpy compares: False for NaN
FNegative(x) == (IsNum(x) /\ x.v < 0) \/ (IsInf(x) /\ x.v < 0)

\* largest quanta count whose square still fits the integer width
SquareSafe == 30000

\* sqrt(x**2 + y**2): beyond SquareSafe the squares are taken of the values
\* rounded to whole units, keeping the relative precision of a float
Norm(x, y) ==
    IF IsNaN(x) \/ IsNaN(y) THEN NaN
    ELSE IF IsInf(x) \/ IsInf(y) THEN PInf
    ELSE IF Abs(x.v) <= SquareSafe /\ Abs(y.v) <= SquareSafe
         THEN F(RoundSqrt(x.v * x.v + y.v * y.v))
    ELSE LET a == RoundDiv(Abs(x.v), Q)
             b == RoundDiv(Abs(y.v), Q)
         IN  F(Q * RoundSqrt(a * a + b * b))

\* arccos in degrees at cosines -1.0, -0.9, ..., 1.0, in quanta of a degree
ArccosTable ==
    << 18000, 15416, 14313, 13443, 12687, 12000, 11358, 10746, 10154, 9574,
       9000, 8426, 7846, 7254, 6642, 6000, 5313, 4557, 3687, 2584, 0 >>

\* np.rad2deg(np.arccos(c)): exact at the table's cosines, interpolated between
\* them; NaN outside [-1, 1]
ArccosDeg(c) ==
    IF ~IsNum(c) \/ Abs(c.v) > Q THEN NaN
    ELSE LET step == Q \div 10
             k == (c.v + Q) \div step
             r == (c.v + Q) % step
             lo == ArccosTable[k + 1]
         IN  IF r = 0 THEN F(lo)
             ELSE F(lo - RoundDiv((lo - ArccosTable[k + 2]) * r, step))

\* ---- arrays and NaN-aware reductions

None == << >>
Some(x) == << x >>

Arr(h, w, d) == [h |-> h, w |-> w, d |-> d]

\* band * -1
NegSeq(s) == [i \in 1..Len(s) |-> FNeg(s[i])]

IsNotNaN(x) == ~IsNaN(x)

\* the values of s that are not NaN, in order
Finite(s) == SelectSeq(s, IsNotNaN)

RECURSIVE Insert(_, _)
Insert(x, s) ==
    IF s = << >> THEN << x >>
    ELSE IF x.v <= Head(s).v THEN << x >> \o s
    ELSE << Head(s) >> \o Insert(x, Tail(s))

RECURSIVE SortNum(_)
SortNum(s) == IF s = << >> THEN << >> ELSE Insert(Head(s), SortNum(Tail(s)))

RECURSIVE SumNum(_)
SumNum(s) == IF s = << >> THEN 0 ELSE Head(s).v + SumNum(Tail(s))

\* np.nanpercentile(s, p), linear interpolation; NaN (with a warning) for an
\* empty or all-NaN sample
NanPercentile(s, p) ==
    LET f == SortNum(Finite(s))
        n == Len(f)
    IN  IF n = 0 THEN NaN
        ELSE LET pos == (n - 1) * p
                 lo == pos \div 100
                 r == pos % 100
             IN  IF r = 0 THEN f[lo + 1]
                 ELSE F(f[lo + 1].v + RoundDiv((f[lo + 2].v - f[lo + 1].v) * r, 100))

\* np.nanmedian(s)
NanMedian(s) == NanPercentile(s, 50)

\* np.nanmean(s)
NanMean(s) ==
    LET f == Finite(s)
    IN  IF Len(f) = 0 THEN NaN ELSE F(RoundDiv(SumNum(f), Len(f)))

\* largest count of whole units whose square, in quanta, still fits
UnitSquareSafe == 2000

\* largest quanta count that can be scaled by Q under the square root
SqrtSafe == 20000000

\* (x - m)**2: beyond SquareSafe the square is taken of the difference rounded
\* to whole units; one beyond the width of the model's floats overflows to inf
SqDev(x, m) ==
    LET d == Abs(x.v - m.v)
        du == RoundDiv(d, Q)
    IN  IF d <= SquareSafe THEN F(RoundDiv(d * d, Q))
        ELSE IF du <= UnitSquareSafe THEN F(Q * du * du)
        ELSE PInf

\* np.sqrt of a float >= 0
FSqrt(x) ==
    IF ~IsNum(x) THEN x
    ELSE IF x.v <= SqrtSafe THEN F(RoundSqrt(x.v * Q))
    ELSE F(Q * RoundSqrt(RoundDiv(x.v, Q)))

\* np.nanstd(s): sqrt of the mean squared deviation from the mean
NanStd(s) ==
    LET f == Finite(s)
        m == NanMean(s)
        sq == [i \in 1..Len(f) |-> SqDev(f[i], m)]
    IN  IF Len(f) = 0 THEN NaN
        ELSE IF \E i \in 1..Len(f) : IsInf(sq[i]) THEN PInf
        ELSE FSqrt(F(RoundDiv(SumNum(sq), Len(f))))

\* ---- circular statistics of bearings in degrees

\* 1000 * sin at 0, 10, ..., 90 degrees
SinTable == << 0, 174, 342, 500, 643, 766, 866, 940, 985, 1000 >>

\* 1000 * sin(a) for 0 <= a <= 90 degrees, a in quanta; interpolated
SinQuadrant(a) ==
    LET step == 10 * Q
        k == a \div step
        r == a % step
    IN  IF r = 0 THEN SinTable[k + 1]
        ELSE SinTable[k + 1] + RoundDiv((SinTable[k + 2] - SinTable[k + 1]) * r, step)

\* 1000 * sin(a), a in quanta of a degree
SinDeg(a) ==
    LET b == a % (360 * Q)
    IN  IF b <= 90 * Q THEN SinQuadrant(b)
        ELSE IF b <= 180 * Q THEN SinQuadrant(180 * Q - b)
        ELSE IF b <= 270 * Q THEN -SinQuadrant(b - 180 * Q)
        ELSE -SinQuadrant(360 * Q - b)

CosDeg(a) == SinDeg(a + 90 * Q)

\* the angle in [0, 90] degrees, in quanta, whose sine is r / 1000
ArcsinQuadrant(r) ==
    IF r >= 1000 THEN 90 * Q
    ELSE LET k == CHOOSE j \in 1..9 : SinTable[j] <= r /\ r < SinTable[j + 1]
         IN  (k - 1) * 10 * Q
             + RoundDiv((r - SinTable[k]) * 10 * Q, SinTable[k + 1] - SinTable[k])

\* arctan2(sn, cs) in [0, 360) degrees, in quanta
Atan2Deg(sn, cs) ==
    LET rr == RoundSqrt(sn * sn + cs * cs)
        small == IF Abs(sn) <= Abs(cs) THEN Abs(sn) ELSE Abs(cs)
        alpha == ArcsinQuadrant(RoundDiv(small * 1000, rr))
        phi == IF Abs(sn) <= Abs(cs) THEN alpha ELSE 90 * Q - alpha
        full == IF cs >= 0 /\ sn >= 0 THEN phi
                ELSE IF cs < 0 /\ sn >= 0 THEN 180 * Q - phi
                ELSE IF cs < 0 THEN 180 * Q + phi
                ELSE 360 * Q - phi
    IN  IF rr = 0 THEN 0 ELSE full % (360 * Q)

RECURSIVE SumSin(_)
SumSin(s) == IF s = << >> THEN 0 ELSE SinDeg(Head(s).v) + SumSin(Tail(s))

RECURSIVE SumCos(_)
SumCos(s) == IF s = << >> THEN 0 ELSE CosDeg(Head(s).v) + SumCos(Tail(s))

\* np.rad2deg(circmean(np.deg2rad(s), nan_policy="omit")): the direction of
\* the sum of the unit vectors
CircMeanDeg(s) ==
    LET f == Finite(s)
    IN  IF Len(f) = 0 THEN NaN ELSE F(Atan2Deg(SumSin(f), SumCos(f)))

\* degrees(sqrt(-2 ln R)) in quanta at R = 0.1, 0.2, ..., 1.0
CircStdTable == << 12295, 10280, 8891, 7756, 6746, 5791, 4839, 3828, 2630, 0 >>

\* np.rad2deg(circstd(np.deg2rad(s), nan_policy="omit")): sqrt(-2 ln R) of the
\* mean resultant length R; inf where R rounds to 0
CircStdDeg(s) ==
    LET f == Finite(s)
        sn == SumSin(f)
        cs == SumCos(f)
        rbar == RoundDiv(RoundSqrt(sn * sn + cs * cs), Len(f))
        k == rbar \div 100
        r == rbar % 100
    IN  IF Len(f) = 0 THEN NaN
        ELSE IF rbar >= 1000 THEN F(0)
        ELSE IF k = 0 THEN (IF r = 0 THEN PInf
                            ELSE F(2 * CircStdTable[1] - CircStdTable[2]
                                   - RoundDiv((CircStdTable[1] - CircStdTable[2]) * r, 100)))
        ELSE F(CircStdTable[k] - RoundDiv((CircStdTable[k] - CircStdTable[k + 1]) * r, 100))

\* ---- calc_velocity

\* dx[valid == 0] = np.nan
MaskInvalid(band, valid) ==
    [i \in 1..Len(band) |-> IF valid[i] = 0 THEN NaN ELSE band[i]]

\* the two offset bands as read from the file, masked by a third band if any
ReadOffsets(file) ==
    IF file.count = 3
    THEN [dx |-> MaskInvalid(file.b1, file.b3), dy |-> MaskInvalid(file.b2, file.b3)]
    ELSE [dx |-> file.b1, dy |-> file.b2]

\* calc_velocity without the inversion for a negative baseline
NoInvert(o, dt) == o

\* if dt.days < 0: dx = dx*-1; dy = dy*-1
InvertIfNegative(o, dt) ==
    IF dt < 0 THEN [dx |-> NegSeq(o.dx), dy |-> NegSeq(o.dy)] ELSE o

\* if medShift: dx = dx - np.nanmedian(dx); dy = dy - np.nanmedian(dy)
MedianShift(o, medShift) ==
    IF medShift
    THEN LET mx == NanMedian(o.dx)
             my == NanMedian(o.dy)
         IN  [dx |-> [i \in 1..Len(o.dx) |-> FSub(o.dx[i], mx)],
              dy |-> [i \in 1..Len(o.dy) |-> FSub(o.dy[i], my)]]
    ELSE o

\* v = sqrt(dx**2 + dy**2) * res; v = (v / abs(dt.days)) * 365
Magnitude(x, y, res, dt) == FMulInt(FDivInt(FMulInt(Norm(x, y), res), Abs(dt)), 365)

\* the angle to north [0, 1] of the unit vector of (x, y), subtracted from 360
\* where x < 0: direction = abs(subtract - direction)
Bearing(x, y) ==
    LET n == Norm(x, y)
        ux == FDiv(x, n)
        uy == FDiv(y, n)
        dot == FAdd(FMulInt(ux, 0), FMulInt(uy, 1))
        angle == ArccosDeg(dot)
        subtract == IF FNegative(x) THEN U(360) ELSE U(0)
    IN  FAbs(FSub(subtract, angle))

CalcVelocity(file, dt, fixed_res, medShift) ==
    LET res == IF fixed_res = None THEN file.res ELSE fixed_res[1]
        o == MedianShift(InvertIfNegative(ReadOffsets(file), dt), medShift)
        n == Len(o.dx)
    IN  [kind |-> "ok",
         v |-> Arr(file.h, file.w, [i \in 1..n |-> Magnitude(o.dx[i], o.dy[i], res, dt)]),
         direction |-> Arr(file.h, file.w, [i \in 1..n |-> Bearing(o.dx[i], o.dy[i])])]

\* ---- offset_stats_pixel and offset_stats_aoi

\* the statistics without the no-data conversion
SentinelKept(a) == a

\* r[r == -9999] = np.nan
SentinelToNaN(a) ==
    [a EXCEPT !.d = [i \in 1..Len(a.d) |-> IF a.d[i] = F(NoData * Q) THEN NaN ELSE a.d[i]]]

\* the conversion without the factor of 365 days
PerDay(x, resolution, dt) == FDivInt(FMulInt(x, resolution), dt)

\* r = ((r*resolution)/dt)*365, with dt as the caller passed it
StatsPerYear(x, resolution, dt) == FMulInt(FDivInt(FMulInt(x, resolution), dt), 365)

\* a Python slice bound k on an axis of length n
SliceBound(k, n) ==
    IF k < 0 THEN (IF k + n < 0 THEN 0 ELSE k + n) ELSE (IF k > n THEN n ELSE k)

\* the 1-based indices that the Python slice [start:stop] takes on an axis of length n
SliceIdx(start, stop, n) ==
    LET a == SliceBound(start, n)
        b == SliceBound(stop, n)
    IN  IF a >= b THEN << >> ELSE [k \in 1..(b - a) |-> a + k]

\* sample = r[ycoord-pad:ycoord+pad+1, xcoord-pad:xcoord+pad+1], flattened
Window(a, xcoord, ycoord, pad) ==
    LET rows == SliceIdx(ycoord - pad, ycoord + pad + 1, a.h)
        cols == SliceIdx(xcoord - pad, xcoord + pad + 1, a.w)
        nc == Len(cols)
    IN  [k \in 1..(Len(rows) * nc) |->
            a.d[(rows[((k - 1) \div nc) + 1] - 1) * a.w + cols[((k - 1) % nc) + 1]]]

RECURSIVE SelectWhere(_, _, _)
SelectWhere(d, m, i) ==
    IF i > Len(d) THEN << >>
    ELSE (IF m[i] = 1 THEN << d[i] >> ELSE << >>) \o SelectWhere(d, m, i + 1)

\* sample = r[mask == 1]
MaskSelect(a, mask) == SelectWhere(a.d, mask.d, 1)

SameShape(a, b) == a.h = b.h /\ a.w = b.w

\* return mean, std, median, p25, p75
FiveStats(sample) ==
    << NanMean(sample), NanStd(sample), NanMedian(sample),
       NanPercentile(sample, 25), NanPercentile(sample, 75) >>

\* the array the statistics are taken of: converted unless take_velocity
StatsInput(r1, resolution, dt, take_velocity) ==
    IF take_velocity THEN r1
    ELSE [r1 EXCEPT !.d = [i \in 1..Len(r1.d) |-> StatsPerYear(r1.d[i], resolution[1], dt[1])]]

\* r_after is the caller's array once the call is over
OffsetStatsPixel(r, xcoord, ycoord, pad, resolution, dt, take_velocity) ==
    LET r1 == SentinelToNaN(r)
    IN  IF ~take_velocity /\ (dt = None \/ resolution = None)
        THEN [kind |-> "ok", val |-> None, r_after |-> r1]
        ELSE [kind |-> "ok",
              val |-> FiveStats(Window(StatsInput(r1, resolution, dt, take_velocity),
                                       xcoord, ycoord, pad)),
              r_after |-> r1]

\* except IndexError: return np.nan, np.nan, np.nan, np.nan
ShapeMismatchReturn == << NaN, NaN, NaN, NaN >>

OffsetStatsAoi(r, mask, resolution, dt, take_velocity) ==
    LET r1 == SentinelToNaN(r)
    IN  IF ~take_velocity /\ (dt = None \/ resolution = None)
        THEN [kind |-> "ok", val |-> None, r_after |-> r1]
        ELSE IF ~SameShape(r1, mask)
        THEN [kind |-> "ok", val |-> ShapeMismatchReturn, r_after |-> r1]
        ELSE [kind |-> "ok",
              val |-> FiveStats(MaskSelect(StatsInput(r1, resolution, dt, take_velocity), mask)),
              r_after |-> r1]

\* ---- the state machine: one call at a time, its arguments and its result

\* op, args, ret: the call in progress, its arguments, its result
\* pc, pos: where a batch call stands and the position of its next record
\* df, stats: the match table and the statistics array of get_stats_in_aoi
\* mask: the AOI mask read from the temp file, once rasterized
\* rasterized: the positions of the records at which gdal_rasterize ran
\* lists: array_list, dt, resolution, bands and mask_list of stack_rasters
\* comp: the composite (average_vals, std_vals) of stack_rasters
\* written: the rasters saved so far, with the record whose file was the reference
\* out: the list of paths calc_velocity_wrapper builds
\* frame: the DataFrame the caller passed as matches, as it is now
\* temp: the raster in ./temp.tif, if the file exists; it outlives the call
VARIABLES op, args, ret, pc, pos, df, stats, mask, rasterized, lists, comp, written,
          out, frame, temp

vars == << op, args, ret, pc, pos, df, stats, mask, rasterized, lists, comp, written,
           out, frame, temp >>

batch == << pc, pos, df, stats, mask, rasterized, lists, comp, written, out, frame >>

NoArgs == [none |-> TRUE]
NoRet == [kind |-> "none"]

\* most pixels of a raster a call is given
MaxPix == 2

\* offset vectors (dx, dy) a disparity file can hold at a pixel
VelPixels ==
    { << U(3), U(4) >>, << U(-3), U(4) >>, << U(0), U(-2) >>, << U(0), U(0) >>,
      << F(-1), U(50) >>, << NaN, NaN >>, << U(NoData), U(NoData) >> }

\* temporal baselines in days (date_sec - date_ref)
DtSet == {-30, -2, 0, 2, 30}

SeqsOf(S, n) == [1..n -> S]

\* disparity files of one row: two offset bands, with or without a validity band
VelFiles ==
    UNION { { [h |-> 1, w |-> n, count |-> 2, res |-> 3,
               b1 |-> [i \in 1..n |-> p[i][1]], b2 |-> [i \in 1..n |-> p[i][2]],
               b3 |-> << >>] : p \in SeqsOf(VelPixels, n) }
            \cup
            { [h |-> 1, w |-> n, count |-> 3, res |-> 3,
               b1 |-> [i \in 1..n |-> p[i][1]], b2 |-> [i \in 1..n |-> p[i][2]],
               b3 |-> g] : p \in SeqsOf(VelPixels, n), g \in SeqsOf({0, 1}, n) }
          : n \in 1..MaxPix }

NoLists == [defined |-> FALSE, arrays |-> << >>, dt |-> << >>, resolution |-> << >>,
            bands |-> << >>, masks |-> << >>]

NoBatch ==
    /\ pc = "none" /\ pos = 0 /\ df = << >> /\ stats = << >>
    /\ mask = None /\ rasterized = << >>
    /\ lists = NoLists /\ comp = None /\ written = << >>
    /\ out = << >> /\ frame = None

Init == op = "idle" /\ args = NoArgs /\ ret = NoRet /\ NoBatch /\ temp = None

CallCalcVelocity ==
    /\ op = "idle"
    /\ \E file \in VelFiles, dt \in DtSet, fixed_res \in {None, Some(1)}, medShift \in BOOLEAN :
          /\ op' = "calc_velocity"
          /\ args' = [file |-> file, dt |-> dt, fixed_res |-> fixed_res, medShift |-> medShift]
          /\ ret' = CalcVelocity(file, dt, fixed_res, medShift)
          /\ UNCHANGED << batch, temp >>

\* the call is over; the next one starts from scratch
Return ==
    /\ op # "idle"
    /\ pc \in {"none", "done", "raised", "returned"}
    /\ op' = "idle" /\ args' = NoArgs /\ ret' = NoRet
    /\ pc' = "none" /\ pos' = 0 /\ df' = << >> /\ stats' = << >>
    /\ mask' = None /\ rasterized' = << >>
    /\ lists' = NoLists /\ comp' = None /\ written' = << >>
    /\ out' = << >> /\ frame' = None
    /\ UNCHANGED temp

NextVel == CallCalcVelocity \/ Return

\* values a raster handed to the statistics can hold at a pixel
StatValues == { U(2), U(6), U(NoData), NaN }

\* array shapes of at most MaxPix pixels
Shapes == { s \in (1..MaxPix) \X (1..MaxPix) : s[1] * s[2] <= MaxPix }

ArraysOver(S) == UNION { { Arr(s[1], s[2], d) : d \in SeqsOf(S, s[1] * s[2]) } : s \in Shapes }

StatArrays == ArraysOver(StatValues)

Masks == ArraysOver({0, 1})

\* how the caller asks: precomputed velocity, or raw offsets with or without
\* the resolution and day count the conversion needs
StatModes ==
    { [take_velocity |-> TRUE, resolution |-> Some(3), dt |-> Some(30)] }
    \cup { [take_velocity |-> FALSE, resolution |-> r, dt |-> d] :
              r \in {None, Some(3)}, d \in {None, Some(-365), Some(30)} }

CallOffsetStatsPixel ==
    /\ op = "idle"
    /\ \E r \in StatArrays, xcoord \in 0..1, ycoord \in 0..1, pad \in 0..1, m \in StatModes :
          /\ op' = "offset_stats_pixel"
          /\ args' = [r |-> r, xcoord |-> xcoord, ycoord |-> ycoord, pad |-> pad,
                      resolution |-> m.resolution, dt |-> m.dt,
                      take_velocity |-> m.take_velocity]
          /\ ret' = OffsetStatsPixel(r, xcoord, ycoord, pad, m.resolution, m.dt,
                                     m.take_velocity)
          /\ UNCHANGED << batch, temp >>

CallOffsetStatsAoi ==
    /\ op = "idle"
    /\ \E r \in StatArrays, msk \in Masks, m \in StatModes :
          /\ op' = "offset_stats_aoi"
          /\ args' = [r |-> r, mask |-> msk, resolution |-> m.resolution, dt |-> m.dt,
                      take_velocity |-> m.take_velocity]
          /\ ret' = OffsetStatsAoi(r, msk, m.resolution, m.dt, m.take_velocity)
          /\ UNCHANGED << batch, temp >>

NextStats == CallOffsetStatsPixel \/ CallOffsetStatsAoi \/ Return

SpecStats == Init /\ [][NextStats]_vars

SpecVel == Init /\ [][NextVel]_vars

\* ---- get_stats_in_aoi

\* most match records of a batch call
MaxRec == 2

\* helper.read_file(file, b): band b as an array
Band(file, b) ==
    Arr(file.h, file.w, IF b = 1 THEN file.b1 ELSE IF b = 2 THEN file.b2 ELSE file.b3)

\* disparity files (-F.tif): dx, dy and, before the polyfit, a validity band
DispFiles ==
    { [h |-> 1, w |-> 2, count |-> 3, res |-> 3,
       b1 |-> << U(2), U(6) >>, b2 |-> << U(-4), U(2) >>, b3 |-> << 1, 0 >>],
      [h |-> 1, w |-> 2, count |-> 2, res |-> 3,
       b1 |-> << U(6), U(NoData) >>, b2 |-> << U(2), U(NoData) >>, b3 |-> << >>],
      [h |-> 1, w |-> 1, count |-> 2, res |-> 1,
       b1 |-> << U(2) >>, b2 |-> << U(6) >>, b3 |-> << >>] }

\* velocity files (-F_velocity.tif): magnitude and bearing
VelocityFiles ==
    { [h |-> 1, w |-> 2, count |-> 2, res |-> 3,
       b1 |-> << U(2), U(6) >>, b2 |-> << U(10), U(350) >>, b3 |-> << >>],
      [h |-> 1, w |-> 2, count |-> 2, res |-> 3,
       b1 |-> << U(6), NaN >>, b2 |-> << U(20), NaN >>, b3 |-> << >>],
      [h |-> 1, w |-> 1, count |-> 2, res |-> 1,
       b1 |-> << U(2) >>, b2 |-> << U(0) >>, b3 |-> << >>] }

NoFile == [h |-> 0, w |-> 0, count |-> 0, res |-> 0, b1 |-> << >>, b2 |-> << >>, b3 |-> << >>]

\* baselines of the match records, in days
BatchDts == {-30, 5, 30}

\* a match record with the file its filename resolves to, if that exists
RecordsOver(files) ==
    { [dt |-> dt, present |-> TRUE, file |-> f] : dt \in BatchDts, f \in files }
    \cup { [dt |-> dt, present |-> FALSE, file |-> NoFile] : dt \in BatchDts }

\* the matches argument: a path to a csv (read with the default index 0..n-1)
\* or a DataFrame, whose index starts at `first`
MatchInputs == { [kind |-> "path", first |-> 0] }
               \cup { [kind |-> "dataframe", first |-> k] : k \in 0..1 }

\* a matches argument that is neither a str nor a DataFrame
OtherInput == [kind |-> "other", first |-> 0]

\* print(...); return: the call ends early and gives None
ReturnedNone == [kind |-> "ok", val |-> None]

\* the caller's DataFrame: columns ref and sec, one row per record with its label
CallerFrame(matches, recs) ==
    IF matches.kind = "dataframe"
    THEN Some([columns |-> {"ref", "sec"},
               rows |-> [p \in 1..Len(recs) |-> [label |-> matches.first + p - 1, rec |-> p]]])
    ELSE None

\* df = matches.copy(): the caller's frame is left as it was
AfterCopy(matches, recs) == CallerFrame(matches, recs)

\* a call that leaves ./temp.tif as it finds it
KeepTemp(t) == t

\* if os.path.isfile(temp): os.remove(temp)
RemoveTemp(t) == None

\* df after reading or copying: one row per record, in order, with its label
LoadFrame(matches, recs) ==
    [p \in 1..Len(recs) |-> [label |-> matches.first + p - 1, rec |-> p, dt |-> recs[p].dt]]

KeepRow(row, max_dt) == row.dt <= max_dt

RECURSIVE FilterRows(_, _)
FilterRows(rows, max_dt) ==
    IF rows = << >> THEN << >>
    ELSE (IF KeepRow(Head(rows), max_dt) THEN << Head(rows) >> ELSE << >>)
         \o FilterRows(Tail(rows), max_dt)

\* df = df[df.dt <= datetime.timedelta(days=max_dt)].reset_index(drop = True)
FilterMaxDt(rows, max_dt) ==
    IF max_dt = None THEN rows
    ELSE LET kept == FilterRows(rows, max_dt[1])
         IN  [p \in 1..Len(kept) |-> [kept[p] EXCEPT !.label = p - 1]]

NaNRow(n) == [k \in 1..n |-> NaN]

StatCols(take_velocity) == IF take_velocity THEN 5 ELSE 10

\* gdal_rasterize of the AOI on the grid of the file: the AOI covers the first
\* pixel; -i burns the outside instead
Rasterize(file, invert) ==
    Arr(file.h, file.w, [k \in 1..(file.h * file.w) |-> IF (k = 1) # invert THEN 1 ELSE 0])

\* dx[good == 0] = np.nan when the file has three bands
GoodBand(file, b) ==
    IF file.count = 3 THEN Arr(file.h, file.w, MaskInvalid(Band(file, b).d, file.b3))
    ELSE Band(file, b)

\* the tuples the statistic calls of one present record return, in call order
RecordStats(file, dt, m, a) ==
    IF a.aoi
    THEN IF a.take_velocity
         THEN << OffsetStatsAoi(Band(file, 1), m, Some(file.res), Some(dt), TRUE).val >>
         ELSE << OffsetStatsAoi(GoodBand(file, 1), m, Some(file.res), Some(dt), FALSE).val,
                 OffsetStatsAoi(GoodBand(file, 2), m, Some(file.res), Some(dt), FALSE).val >>
    ELSE IF a.take_velocity
         THEN << OffsetStatsPixel(Band(file, 1), a.xcoord, a.ycoord, a.pad,
                                  Some(file.res), Some(dt), TRUE).val >>
         ELSE << OffsetStatsPixel(GoodBand(file, 1), a.xcoord, a.ycoord, a.pad,
                                  Some(file.res), Some(dt), FALSE).val,
                 OffsetStatsPixel(GoodBand(file, 2), a.xcoord, a.ycoord, a.pad,
                                  Some(file.res), Some(dt), FALSE).val >>

\* stats[index,0], ..., stats[index,4] = <tuple>: unpacking needs five values
UnpackFails(tuples) == \E k \in 1..Len(tuples) : Len(tuples[k]) # 5

Flatten2(tuples) == IF Len(tuples) = 1 THEN tuples[1] ELSE tuples[1] \o tuples[2]

\* pd.concat([df, statsdf], axis = 1): rows are aligned on the index labels;
\* a label of one side only gets NaN on the other
ConcatTable(rows, st, ncols) ==
    LET labels == { rows[p].label : p \in 1..Len(rows) } \cup { k - 1 : k \in 1..Len(st) }
        RowOf(l) == { p \in 1..Len(rows) : rows[p].label = l }
    IN  [l \in labels |->
            [rec |-> IF RowOf(l) = {} THEN None
                     ELSE Some(rows[CHOOSE p \in RowOf(l) : TRUE].rec),
             stats |-> IF l + 1 \in 1..Len(st) THEN st[l + 1] ELSE NaNRow(ncols)]]

GetStatsStart ==
    /\ op = "idle"
    /\ op' = "get_stats_in_aoi"
    /\ UNCHANGED << lists, comp, written, out, mask, rasterized >>
    /\ \E aoi \in BOOLEAN, invert \in BOOLEAN, take_velocity \in BOOLEAN,
          max_dt \in {None, Some(10)} :
          /\ aoi \/ ~invert
          /\ \/ \E n \in 1..MaxRec, matches \in MatchInputs :
                   \E recs \in SeqsOf(RecordsOver(IF take_velocity THEN VelocityFiles
                                                   ELSE DispFiles), n) :
                      /\ args' = [matches |-> matches, recs |-> recs, aoi |-> aoi,
                                  invert |-> invert, xcoord |-> 1, ycoord |-> 0, pad |-> 0,
                                  take_velocity |-> take_velocity, max_dt |-> max_dt]
                      /\ frame' = AfterCopy(matches, recs)
                      /\ temp' = RemoveTemp(temp)
                      /\ df' = FilterMaxDt(LoadFrame(matches, recs), max_dt)
                      /\ stats' = [p \in 1..Len(df') |-> NaNRow(StatCols(take_velocity))]
                      /\ pc' = "loop" /\ pos' = 1
                      /\ ret' = NoRet
             \/ /\ args' = [matches |-> OtherInput, recs |-> << >>, aoi |-> aoi,
                             invert |-> invert, xcoord |-> 1, ycoord |-> 0, pad |-> 0,
                             take_velocity |-> take_velocity, max_dt |-> max_dt]
                /\ pc' = "returned" /\ ret' = ReturnedNone
                /\ UNCHANGED << pos, df, stats, frame, temp >>

\* one pass of the loop over df.iterrows()
GetStatsStep ==
    /\ op = "get_stats_in_aoi" /\ pc = "loop" /\ pos <= Len(df)
    /\ UNCHANGED << lists, comp, written, out, frame >>
    /\ LET row == df[pos]
           rec == args.recs[row.rec]
           rasterize == args.aoi /\ temp = None
           newmask == IF rasterize THEN Some(Rasterize(rec.file, args.invert)) ELSE mask
           tuples == RecordStats(rec.file, rec.dt, IF args.aoi THEN newmask[1] ELSE None, args)
       IN  IF ~rec.present
           THEN /\ pos' = pos + 1
                /\ UNCHANGED << op, args, ret, pc, df, stats, mask, rasterized, temp >>
           ELSE /\ mask' = newmask
                /\ temp' = IF rasterize THEN newmask ELSE temp
                /\ rasterized' = IF rasterize THEN Append(rasterized, pos) ELSE rasterized
                /\ IF args.aoi /\ newmask = None
                   THEN /\ pc' = "raised"
                        /\ ret' = [kind |-> "error", error |-> "UnboundLocalError"]
                        /\ UNCHANGED << op, args, pos, df, stats >>
                   ELSE IF UnpackFails(tuples)
                   THEN /\ pc' = "raised"
                        /\ ret' = [kind |-> "error", error |-> "ValueError"]
                        /\ UNCHANGED << op, args, pos, df, stats >>
                   ELSE IF row.label + 1 \notin 1..Len(stats)
                   THEN /\ pc' = "raised"
                        /\ ret' = [kind |-> "error", error |-> "IndexError"]
                        /\ UNCHANGED << op, args, pos, df, stats >>
                   ELSE /\ stats' = [stats EXCEPT ![row.label + 1] = Flatten2(tuples)]
                        /\ pos' = pos + 1
                        /\ UNCHANGED << op, args, ret, pc, df >>

\* after the loop: the table of records and statistics is built and returned
GetStatsFinish ==
    /\ op = "get_stats_in_aoi" /\ pc = "loop" /\ pos > Len(df)
    /\ pc' = "done"
    /\ ret' = [kind |-> "ok", table |-> ConcatTable(df, stats, StatCols(args.take_velocity))]
    /\ UNCHANGED << op, args, pos, df, stats, mask, rasterized, lists, comp, written,
                    out, frame, temp >>

NextGetStats == GetStatsStart \/ GetStatsStep \/ GetStatsFinish \/ Return

SpecGetStats == Init /\ [][NextGetStats]_vars

\* ---- stack_rasters

Selectors == {"velocity", "direction", "dx", "dy"}

\* np.ma.masked_invalid: NaN and inf are masked; a masked value is held as NaN
MaskedInvalid(a) == [a EXCEPT !.d = [k \in 1..Len(a.d) |-> IF IsNum(a.d[k]) THEN a.d[k] ELSE NaN]]

RECURSIVE PresentPositions(_, _)
PresentPositions(recs, p) ==
    IF p > Len(recs) THEN << >>
    ELSE (IF recs[p].present THEN << p >> ELSE << >>) \o PresentPositions(recs, p + 1)

\* [f(x) for x in df.filenames if os.path.isfile(x)]: positional, in order
ReadPresent(recs, what) ==
    LET pp == PresentPositions(recs, 1)
    IN  [j \in 1..Len(pp) |->
            IF what = "velocity" THEN MaskedInvalid(Band(recs[pp[j]].file, 1))
            ELSE IF what = "direction" THEN Band(recs[pp[j]].file, 2)
            ELSE IF what = "dx" THEN Band(recs[pp[j]].file, 1)
            ELSE Band(recs[pp[j]].file, 2)]

\* df.filenames[i], df["dt"][i]: a lookup by index label, KeyError without it
HasLabel(rows, i) == \E p \in 1..Len(rows) : rows[p].label = i

RowAt(rows, i) == rows[CHOOSE p \in 1..Len(rows) : rows[p].label = i]

\* the 0-based i of range(len(df)) whose file exists
PresentLabels(rows, recs) ==
    LET RECURSIVE Go(_)
        Go(i) == IF i >= Len(rows) THEN << >>
                 ELSE (IF recs[RowAt(rows, i).rec].present THEN << i >> ELSE << >>) \o Go(i + 1)
    IN  Go(0)

\* mask_list: evaluating bands[i] with i the position in df, for each i whose
\* file exists
MaskListFails(rows, recs, bands) ==
    \E i \in 0..(Len(rows) - 1) : recs[RowAt(rows, i).rec].present /\ i + 1 > Len(bands)

MaskList(rows, recs, bands) ==
    LET RECURSIVE Go(_)
        Go(i) == IF i >= Len(rows) THEN << >>
                 ELSE (IF recs[RowAt(rows, i).rec].present /\ bands[i + 1] = 3
                       THEN << Band(recs[RowAt(rows, i).rec].file, 3) >> ELSE << >>)
                      \o Go(i + 1)
    IN  Go(0)

\* ((masked*resolution[i])/dt[i])*365
StackPerYear(x, resolution, dt) == FMulInt(FDivInt(FMulInt(x, resolution), dt), 365)

\* the conversion loop without the median shift
ConvertUnshifted(a, resolution, dt, medShift) ==
    MaskedInvalid(Arr(a.h, a.w, [k \in 1..Len(a.d) |-> StackPerYear(a.d[k], resolution, dt)]))

\* one pass of the conversion loop over array i: masked = array_list[i], the
\* median shift, the conversion, np.ma.masked_invalid
ConvertArray(a, resolution, dt, medShift) ==
    LET med == NanMedian(a.d)
        shifted == IF medShift THEN [k \in 1..Len(a.d) |-> FSub(a.d[k], med)] ELSE a.d
    IN  MaskedInvalid(Arr(a.h, a.w, [k \in 1..Len(a.d) |-> StackPerYear(shifted[k], resolution, dt)]))

Ragged(arrays) == \E j \in 1..Len(arrays) : ~SameShape(arrays[j], arrays[1])

Column(arrays, k) == [j \in 1..Len(arrays) |-> arrays[j].d[k]]

EmptyArr == Arr(0, 0, << >>)

\* the reduction that takes the linear mean and std for every selector
LinearReduce(arrays, what) ==
    IF Len(arrays) = 0 THEN [mean |-> EmptyArr, std |-> EmptyArr]
    ELSE [mean |-> Arr(arrays[1].h, arrays[1].w,
                       [k \in 1..Len(arrays[1].d) |-> NanMean(Column(arrays, k))]),
          std |-> Arr(arrays[1].h, arrays[1].w,
                      [k \in 1..Len(arrays[1].d) |-> NanStd(Column(arrays, k))])]

\* np.ma.average / np.ma.std over axis 0, or circmean / circstd for direction
Reduce(arrays, what) ==
    IF Len(arrays) = 0 THEN [mean |-> EmptyArr, std |-> EmptyArr]
    ELSE LET h == arrays[1].h
             w == arrays[1].w
         IN  IF what # "direction"
             THEN [mean |-> Arr(h, w, [k \in 1..(h * w) |-> NanMean(Column(arrays, k))]),
                   std |-> Arr(h, w, [k \in 1..(h * w) |-> NanStd(Column(arrays, k))])]
             ELSE [mean |-> Arr(h, w, [k \in 1..(h * w) |-> CircMeanDeg(Column(arrays, k))]),
                   std |-> Arr(h, w, [k \in 1..(h * w) |-> CircStdDeg(Column(arrays, k))])]

Raise(e) ==
    /\ pc' = "raised"
    /\ ret' = [kind |-> "error", error |-> e]

StackStart ==
    /\ op = "idle"
    /\ op' = "stack_rasters"
    /\ UNCHANGED << stats, mask, rasterized, comp, written, out, temp >>
    /\ \E what \in Selectors \cup {"dz"}, medShift \in BOOLEAN :
          \/ \E n \in 1..MaxRec, matches \in MatchInputs :
                \E recs \in SeqsOf(RecordsOver(IF what \in {"velocity", "direction"}
                                               THEN VelocityFiles ELSE DispFiles), n) :
                   /\ args' = [matches |-> matches, recs |-> recs, what |-> what,
                               medShift |-> medShift]
                   /\ frame' = AfterCopy(matches, recs)
                   /\ df' = LoadFrame(matches, recs)
                   /\ lists' = IF what \in Selectors
                               THEN [NoLists EXCEPT !.defined = TRUE,
                                                    !.arrays = ReadPresent(recs, what)]
                               ELSE NoLists
                   /\ pc' = IF what \in {"velocity", "direction"} THEN "reduce" ELSE "lists"
                   /\ pos' = 1
                   /\ ret' = NoRet
          \/ /\ args' = [matches |-> OtherInput, recs |-> << >>, what |-> what,
                          medShift |-> medShift]
             /\ pc' = "returned" /\ ret' = ReturnedNone
             /\ UNCHANGED << pos, df, lists, frame >>

\* dt, resolution, bands and mask_list of the raw selectors
StackLists ==
    /\ op = "stack_rasters" /\ pc = "lists"
    /\ UNCHANGED << op, args, pos, df, stats, mask, rasterized, comp, written, out, frame, temp >>
    /\ IF \E i \in 0..(Len(df) - 1) : ~HasLabel(df, i)
       THEN Raise("KeyError") /\ UNCHANGED lists
       ELSE LET pl == PresentLabels(df, args.recs)
                FileAt(j) == args.recs[RowAt(df, pl[j]).rec].file
                bands == [j \in 1..Len(pl) |-> FileAt(j).count]
            IN  IF MaskListFails(df, args.recs, bands)
                THEN Raise("IndexError") /\ UNCHANGED lists
                ELSE /\ lists' = [lists EXCEPT
                                    !.dt = [j \in 1..Len(pl) |-> RowAt(df, pl[j]).dt],
                                    !.resolution = [j \in 1..Len(pl) |-> FileAt(j).res],
                                    !.bands = bands,
                                    !.masks = MaskList(df, args.recs, bands)]
                     /\ pc' = "convert"
                     /\ UNCHANGED ret

\* for i in range(len(dt)): one pass, or the end of the loop
StackConvert ==
    /\ op = "stack_rasters" /\ pc = "convert"
    /\ UNCHANGED << op, args, df, stats, mask, rasterized, comp, written, out, frame, temp >>
    /\ IF pos > Len(lists.dt)
       THEN pc' = "reduce" /\ pos' = 1 /\ UNCHANGED << lists, ret >>
       ELSE IF lists.bands[pos] = 3 /\ pos > Len(lists.masks)
       THEN Raise("IndexError") /\ UNCHANGED << pos, lists >>
       ELSE IF ~lists.defined
       THEN Raise("NameError") /\ UNCHANGED << pos, lists >>
       ELSE /\ lists' = [lists EXCEPT !.arrays[pos] =
                            ConvertArray(lists.arrays[pos], lists.resolution[pos],
                                         lists.dt[pos], args.medShift)]
            /\ pos' = pos + 1
            /\ UNCHANGED << pc, ret >>

StackReduce ==
    /\ op = "stack_rasters" /\ pc = "reduce"
    /\ UNCHANGED << op, args, pos, df, stats, mask, rasterized, lists, written, out, frame, temp >>
    /\ IF ~lists.defined THEN Raise("NameError") /\ UNCHANGED comp
       ELSE IF Ragged(lists.arrays) THEN Raise("ValueError") /\ UNCHANGED comp
       ELSE /\ comp' = Some(Reduce(lists.arrays, args.what))
            /\ pc' = "save"
            /\ UNCHANGED ret

\* the save loop without its break: every record whose file exists is saved to
StackSaveAll ==
    /\ op = "stack_rasters" /\ pc = "save"
    /\ UNCHANGED << op, args, df, stats, mask, rasterized, lists, comp, out, frame, temp >>
    /\ IF pos > Len(df)
       THEN /\ pc' = "done" /\ ret' = [kind |-> "ok", path |-> args.what]
            /\ UNCHANGED << pos, written >>
       ELSE IF ~HasLabel(df, pos - 1)
       THEN Raise("KeyError") /\ UNCHANGED << pos, written >>
       ELSE /\ written' = IF args.recs[RowAt(df, pos - 1).rec].present
                          THEN Append(written, [path |-> args.what, data |-> comp[1],
                                                reference |-> RowAt(df, pos - 1).rec])
                          ELSE written
            /\ pos' = pos + 1
            /\ UNCHANGED << pc, ret >>

\* while i < len(df): the first record whose file exists is the reference of
\* the saved composite; then the output path is returned
StackSave ==
    /\ op = "stack_rasters" /\ pc = "save"
    /\ UNCHANGED << op, args, df, stats, mask, rasterized, lists, comp, out, frame, temp >>
    /\ IF pos > Len(df)
       THEN /\ pc' = "done" /\ ret' = [kind |-> "ok", path |-> args.what]
            /\ UNCHANGED << pos, written >>
       ELSE IF ~HasLabel(df, pos - 1)
       THEN Raise("KeyError") /\ UNCHANGED << pos, written >>
       ELSE IF args.recs[RowAt(df, pos - 1).rec].present
       THEN /\ written' = Append(written, [path |-> args.what, data |-> comp[1],
                                           reference |-> RowAt(df, pos - 1).rec])
            /\ pc' = "done" /\ ret' = [kind |-> "ok", path |-> args.what]
            /\ UNCHANGED pos
       ELSE /\ pos' = pos + 1
            /\ UNCHANGED << pc, ret, written >>

NextStack == StackStart \/ StackLists \/ StackConvert \/ StackReduce \/ StackSave \/ Return

SpecStack == Init /\ [][NextStack]_vars

\* most files of a stack of bearings
MaxStack == 4

\* velocity files of one pixel: unit magnitude and a bearing in degrees
BearingFiles ==
    { [h |-> 1, w |-> 1, count |-> 2, res |-> 1, b1 |-> << U(1) >>, b2 |-> << U(b) >>,
       b3 |-> << >>] : b \in {0, 10, 20, 350} }

\* stack_rasters over the velocity files of up to MaxStack records, all present
StackStartBearings ==
    /\ op = "idle"
    /\ op' = "stack_rasters"
    /\ UNCHANGED << stats, mask, rasterized, comp, written, out, temp >>
    /\ \E what \in Selectors, n \in 1..MaxStack :
          \E files \in SeqsOf(BearingFiles, n) :
             LET matches == [kind |-> "path", first |-> 0]
                 recs == [p \in 1..n |-> [dt |-> 30, present |-> TRUE, file |-> files[p]]]
             IN  /\ args' = [matches |-> matches, recs |-> recs, what |-> what,
                             medShift |-> FALSE]
                 /\ frame' = AfterCopy(matches, recs)
                 /\ df' = LoadFrame(matches, recs)
                 /\ lists' = [NoLists EXCEPT !.defined = TRUE, !.arrays = ReadPresent(recs, what)]
                 /\ pc' = IF what \in {"velocity", "direction"} THEN "reduce" ELSE "lists"
                 /\ pos' = 1
                 /\ ret' = NoRet

NextBearings ==
    StackStartBearings \/ StackLists \/ StackConvert \/ StackReduce \/ StackSave \/ Return

SpecBearings == Init /\ [][NextBearings]_vars

\* the operations that convert to per-year units
NextConversion ==
    \/ CallCalcVelocity
    \/ CallOffsetStatsPixel
    \/ CallOffsetStatsAoi
    \/ StackStart
    \/ StackLists
    \/ StackConvert
    \/ StackReduce
    \/ StackSave
    \/ Return

SpecConversion == Init /\ [][NextConversion]_vars

\* ---- calc_velocity_wrapper

\* a match record of the wrapper: its disparity file, if that exists, and
\* whether the velocity file next to it exists already
WrapperRecords ==
    { [dt |-> dt, present |-> TRUE, file |-> f, has_velocity |-> v] :
         dt \in BatchDts, f \in DispFiles, v \in BOOLEAN }
    \cup { [dt |-> dt, present |-> FALSE, file |-> NoFile, has_velocity |-> FALSE] :
              dt \in BatchDts }

\* a wrapper that computes the velocity of every disparity file it finds
AlwaysWrite(rec, overwrite) == rec.present

\* if overwrite or (not os.path.isfile(disp[:-4]+"_velocity.tif"))
ShouldWrite(rec, overwrite) == rec.present /\ (overwrite \/ ~rec.has_velocity)

WrapperStart ==
    /\ op = "idle"
    /\ op' = "calc_velocity_wrapper"
    /\ UNCHANGED << stats, mask, rasterized, lists, comp, written, out, temp >>
    /\ \E overwrite \in BOOLEAN, medShift \in BOOLEAN :
          \/ \E n \in 1..MaxRec, matches \in MatchInputs :
                \E recs \in SeqsOf(WrapperRecords, n) :
                   /\ args' = [matches |-> matches, recs |-> recs, overwrite |-> overwrite,
                               medShift |-> medShift]
                   /\ frame' = AfterCopy(matches, recs)
                   /\ df' = LoadFrame(matches, recs)
                   /\ pc' = "loop" /\ pos' = 1
                   /\ ret' = NoRet
          \/ /\ args' = [matches |-> OtherInput, recs |-> << >>, overwrite |-> overwrite,
                          medShift |-> medShift]
             /\ pc' = "returned" /\ ret' = ReturnedNone
             /\ UNCHANGED << pos, df, frame >>

\* one pass of the loop over df.iterrows()
WrapperStep ==
    /\ op = "calc_velocity_wrapper" /\ pc = "loop" /\ pos <= Len(df)
    /\ UNCHANGED << op, args, ret, pc, df, stats, mask, rasterized, lists, comp, frame, temp >>
    /\ pos' = pos + 1
    /\ LET rec == args.recs[df[pos].rec]
       IN  IF ShouldWrite(rec, args.overwrite)
           THEN /\ written' = Append(written,
                                     [path |-> df[pos].rec, reference |-> df[pos].rec,
                                      data |-> CalcVelocity(rec.file, rec.dt, None, args.medShift)])
                /\ out' = Append(out, df[pos].rec)
           ELSE UNCHANGED << written, out >>

\* return out
WrapperFinish ==
    /\ op = "calc_velocity_wrapper" /\ pc = "loop" /\ pos > Len(df)
    /\ pc' = "done"
    /\ ret' = [kind |-> "ok", out |-> out]
    /\ UNCHANGED << op, args, pos, df, stats, mask, rasterized, lists, comp, written,
                    out, frame, temp >>

NextWrapper == WrapperStart \/ WrapperStep \/ WrapperFinish \/ Return

SpecWrapper == Init /\ [][NextWrapper]_vars

\* every call of the module
Next ==
    \/ CallCalcVelocity
    \/ CallOffsetStatsPixel
    \/ CallOffsetStatsAoi
    \/ GetStatsStart
    \/ GetStatsStep
    \/ GetStatsFinish
    \/ StackStart
    \/ StackLists
    \/ StackConvert
    \/ StackReduce
    \/ StackSave
    \/ WrapperStart
    \/ WrapperStep
    \/ WrapperFinish
    \/ Return

Spec == Init /\ [][Next]_vars

\* ---- claims about calc_velocity

\* the same file with every offset pixel negated
NegateFile(file) == [file EXCEPT !.b1 = NegSeq(@), !.b2 = NegSeq(@)]

\* C1: calc_velocity gives the same magnitude and the same bearing at every
\* pixel for (dx, dy, dt) and for (-dx, -dy, -dt), dt # 0, medShift on or off.
C1_SignInvariant ==
    (op = "calc_velocity" /\ args.dt # 0)
        => ret = CalcVelocity(NegateFile(args.file), -args.dt, args.fixed_res, args.medShift)

\* a call with a negative baseline and medShift on that produced a finite,
\* non-zero magnitude and a finite bearing at some pixel
C1_Witness ==
    /\ op = "calc_velocity" /\ args.dt < 0 /\ args.medShift
    /\ \E i \in 1..Len(ret.v.d) :
          /\ IsNum(ret.v.d[i]) /\ ret.v.d[i].v > 0
          /\ IsNum(ret.direction.d[i]) /\ ret.direction.d[i].v > 0

\* C2: at every pixel of every output of calc_velocity the magnitude is >= 0
\* and the bearing is NaN or in [0, 360): never negative, never exactly 360.
C2_MagnitudeAndBearingRange ==
    op = "calc_velocity" =>
        \A i \in 1..Len(ret.v.d) :
            /\ IsNaN(ret.v.d[i]) \/ ret.v.d[i].v >= 0
            /\ \/ IsNaN(ret.direction.d[i])
               \/ /\ IsNum(ret.direction.d[i])
                  /\ ret.direction.d[i].v >= 0
                  /\ ret.direction.d[i].v < 360 * Q

\* C3: calc_velocity with a baseline of zero days fails with an error and
\* returns no magnitude array.
C3_ZeroBaselineFails ==
    (op = "calc_velocity" /\ args.dt = 0) => ret.kind = "error"

\* ---- claims about offset_stats_pixel and offset_stats_aoi

StatsOps == {"offset_stats_pixel", "offset_stats_aoi"}

\* the call has the arguments its mode requires and, in mask mode, a mask of
\* the raster's shape
ValidStatsCall ==
    /\ args.take_velocity \/ (args.dt # None /\ args.resolution # None)
    /\ op = "offset_stats_aoi" => SameShape(args.r, args.mask)

\* the pixels the call selects from the raster it was given
SelectedSample ==
    IF op = "offset_stats_pixel"
    THEN Window(args.r, args.xcoord, args.ycoord, args.pad)
    ELSE MaskSelect(args.r, args.mask)

AllInvalid(sample) == \A i \in 1..Len(sample) : sample[i] = NaN \/ sample[i] = U(NoData)

AllNaNSummary == << NaN, NaN, NaN, NaN, NaN >>

\* C5: offset_stats_pixel and offset_stats_aoi return the 5-tuple (mean, std,
\* median, p25, p75) with every element NaN, without raising, whenever the
\* selected sample is empty or holds only -9999 / NaN pixels.
C5_InvalidSampleGivesAllNaN ==
    (op \in StatsOps /\ ValidStatsCall /\ AllInvalid(SelectedSample))
        => (ret.kind = "ok" /\ ret.val = AllNaNSummary)

\* a raw-offset call whose sample holds a -9999 pixel and nothing valid
C5_Witness ==
    /\ op \in StatsOps /\ ValidStatsCall /\ ~args.take_velocity
    /\ AllInvalid(SelectedSample)
    /\ \E i \in 1..Len(SelectedSample) : SelectedSample[i] = U(NoData)
    /\ ret.val = AllNaNSummary

\* C8: offset_stats_pixel and offset_stats_aoi called with take_velocity = False
\* and resolution or dt omitted fail with an error; they do not return normally.
C8_MissingArgumentFails ==
    (op \in StatsOps /\ ~args.take_velocity /\ (args.dt = None \/ args.resolution = None))
        => ret.kind = "error"

\* ---- claims about the no-data sentinel

ScrubSeq(d) == [i \in 1..Len(d) |-> IF d[i] = U(NoData) THEN NaN ELSE d[i]]

\* the same file with NaN at every -9999 pixel of its offset bands
ScrubFile(file) == [file EXCEPT !.b1 = ScrubSeq(@), !.b2 = ScrubSeq(@)]

ScrubRecs(recs) == [p \in 1..Len(recs) |-> [recs[p] EXCEPT !.file = ScrubFile(@)]]

\* the present files all have the shape of the first present one
SameShapes(recs) ==
    \A p, q \in 1..Len(recs) :
        (recs[p].present /\ recs[q].present) => SameShape(recs[p].file, recs[q].file)

\* the composite of the present files of recs, each read with its selector and,
\* for dx and dy, converted with the resolution and the dt of its own record
ExpectedStack(recs, what, medShift) ==
    LET pp == PresentPositions(recs, 1)
        raw == ReadPresent(recs, what)
    IN  Reduce([j \in 1..Len(pp) |->
                   IF what \in {"dx", "dy"}
                   THEN ConvertArray(raw[j], recs[pp[j]].file.res, recs[pp[j]].dt, medShift)
                   ELSE raw[j]],
               what)

\* C4: no result of offset_stats_pixel, offset_stats_aoi, calc_velocity or
\* stack_rasters depends on a -9999 pixel: each result is the one the same call
\* gives when every -9999 of its input is NaN from the start.
C4_SentinelNeverParticipates ==
    /\ op = "offset_stats_pixel" =>
          ret.val = OffsetStatsPixel([args.r EXCEPT !.d = ScrubSeq(@)], args.xcoord,
                                     args.ycoord, args.pad, args.resolution, args.dt,
                                     args.take_velocity).val
    /\ op = "offset_stats_aoi" =>
          ret.val = OffsetStatsAoi([args.r EXCEPT !.d = ScrubSeq(@)], args.mask,
                                   args.resolution, args.dt, args.take_velocity).val
    /\ op = "calc_velocity" =>
          ret = CalcVelocity(ScrubFile(args.file), args.dt, args.fixed_res, args.medShift)
    /\ (op = "stack_rasters" /\ pc = "done") =>
          comp = Some(ExpectedStack(ScrubRecs(args.recs), args.what, args.medShift))

\* ---- claims about the conversion to per-year units

\* value * resolution / days * 365
PerYear(x, resolution, days) == FMulInt(FDivInt(FMulInt(x, resolution), days), 365)

\* the sample of a statistics call, every pixel converted with `days`
ConvertedSample(days) ==
    LET r1 == SentinelToNaN(args.r)
        c == [r1 EXCEPT !.d = [i \in 1..Len(r1.d) |-> PerYear(r1.d[i], args.resolution[1], days)]]
    IN  IF op = "offset_stats_pixel" THEN Window(c, args.xcoord, args.ycoord, args.pad)
        ELSE MaskSelect(c, args.mask)

\* the offsets of a calc_velocity call as they enter the magnitude
ShiftedOffsets ==
    MedianShift(InvertIfNegative(ReadOffsets(args.file), args.dt), args.medShift)

VelocityConverted ==
    (op = "calc_velocity" /\ args.dt # 0) =>
        LET o == ShiftedOffsets
            res == IF args.fixed_res = None THEN args.file.res ELSE args.fixed_res[1]
        IN  \A i \in 1..Len(o.dx) :
                ret.v.d[i] = PerYear(Norm(o.dx[i], o.dy[i]), res, Abs(args.dt))

\* the loop of stack_rasters is over: array j was converted with dt[j], or
\* with |dt[j]|
StackConverted(absolute) ==
    (op = "stack_rasters" /\ args.what \in {"dx", "dy"} /\ pc = "reduce") =>
        LET raw == ReadPresent(args.recs, args.what)
        IN  \A j \in 1..Len(lists.arrays) :
                LET med == NanMedian(raw[j].d)
                IN  \A k \in 1..Len(raw[j].d) :
                        lists.arrays[j].d[k] =
                            MaskedInvalid(Arr(1, 1, << PerYear(
                                IF args.medShift THEN FSub(raw[j].d[k], med) ELSE raw[j].d[k],
                                lists.resolution[j],
                                IF absolute THEN Abs(lists.dt[j]) ELSE lists.dt[j]) >>)).d[1]

RawStatsCall ==
    /\ op \in StatsOps /\ ~args.take_velocity /\ ValidStatsCall
    /\ args.dt[1] # 0

\* C6 as the code has it: calc_velocity divides the length of the (inverted)
\* offset by |dt|; the raw-offset statistics and the dx/dy stack divide the
\* signed offset by the signed dt; all three multiply by the resolution and
\* by 365.
C6_PerYearConversion ==
    /\ VelocityConverted
    /\ RawStatsCall => ret.val = FiveStats(ConvertedSample(args.dt[1]))
    /\ StackConverted(FALSE)

\* a raw-offset statistics call with a negative dt and a finite, non-zero mean
C6_Witness ==
    /\ RawStatsCall /\ args.dt[1] < 0
    /\ IsNum(ret.val[1]) /\ ret.val[1].v # 0

\* C6 as stated: the per-year conversion divides by |dt| in calc_velocity, in
\* the raw-offset statistics and in the dx/dy stack alike.
C6_AbsoluteDtEverywhere ==
    /\ VelocityConverted
    /\ RawStatsCall => ret.val = FiveStats(ConvertedSample(Abs(args.dt[1])))
    /\ StackConverted(TRUE)

\* ---- claims about get_stats_in_aoi

\* the record at position p of df has a file whose shape is not the mask's
MismatchAt(p) ==
    /\ args.aoi /\ mask # None
    /\ args.recs[df[p].rec].present
    /\ ~SameShape(Band(args.recs[df[p].rec].file, 1), mask[1])

\* C7: offset_stats_aoi given a raster and a mask of different shapes returns
\* the all-NaN summary of five values; get_stats_in_aoi does not crash at such
\* a record and leaves NaN in every statistic of its row.
C7_ShapeMismatchGivesAllNaN ==
    /\ (/\ op = "offset_stats_aoi"
        /\ args.take_velocity \/ (args.dt # None /\ args.resolution # None)
        /\ ~SameShape(args.r, args.mask))
          => ret.val = AllNaNSummary
    /\ op = "get_stats_in_aoi" =>
          \A p \in 1..Len(df) :
              MismatchAt(p) =>
                  /\ p = pos => pc # "raised"
                  /\ (p < pos /\ df[p].label + 1 \in 1..Len(stats)) =>
                        stats[df[p].label + 1] = NaNRow(StatCols(args.take_velocity))

\* the statistics columns row p of df should carry
ExpectedRowStats(p) ==
    LET rec == args.recs[df[p].rec]
    IN  IF rec.present
        THEN Flatten2(RecordStats(rec.file, rec.dt, IF args.aoi THEN mask[1] ELSE None, args))
        ELSE NaNRow(StatCols(args.take_velocity))

\* C9: get_stats_in_aoi does not raise at a record whose file is missing, and
\* the table it returns has one row per (filtered) match record, with NaN in
\* every statistic column of a missing file's row and the computed statistics
\* in a present file's row.
C9_MissingFilesSkipped ==
    op = "get_stats_in_aoi" =>
        /\ pc = "raised" => args.recs[df[pos].rec].present
        /\ pc = "done" =>
              /\ Cardinality(DOMAIN ret.table) = Len(df)
              /\ \A p \in 1..Len(df) :
                    \E l \in DOMAIN ret.table :
                        /\ ret.table[l].rec = Some(df[p].rec)
                        /\ ret.table[l].stats = ExpectedRowStats(p)

\* ---- claims about stack_rasters

\* C10: for every selector and every pattern of present and missing files,
\* stack_rasters completes and its composite is the reduction of the arrays of
\* exactly the present files, each converted with the dt and the resolution of
\* its own record.
C10_StackSkipsMissingFiles ==
    (/\ op = "stack_rasters" /\ args.what \in Selectors
     /\ args.matches.first = 0 /\ SameShapes(args.recs))
        => /\ pc # "raised"
           /\ pc = "done" => comp = Some(ExpectedStack(args.recs, args.what, args.medShift))

NonePresent(recs) == \A p \in 1..Len(recs) : ~recs[p].present

\* C11: stack_rasters on match records none of whose files exist fails with an
\* error: it returns no output path and writes no composite.
C11_EmptyStackFails ==
    (/\ op = "stack_rasters" /\ args.matches.kind # "other"
     /\ args.what \in Selectors /\ NonePresent(args.recs))
        => (ret.kind # "ok" /\ pc # "done" /\ written = << >>)

\* the band a raw selector reads
RawBand(what) == IF what = "dx" THEN 1 ELSE 2

\* C12: in stack_rasters with what in {dx, dy}, the array of every present
\* file with a validity band is NaN wherever that file's validity is 0, before
\* the median de-shift and the conversion: what enters the reduction is the
\* conversion of the masked band.
C12_ValidityMaskApplied ==
    (op = "stack_rasters" /\ args.what \in {"dx", "dy"} /\ pc = "reduce") =>
        LET pp == PresentPositions(args.recs, 1)
        IN  \A j \in 1..Len(pp) :
                lists.arrays[j] =
                    ConvertArray(GoodBand(args.recs[pp[j]].file, RawBand(args.what)),
                                 args.recs[pp[j]].file.res, args.recs[pp[j]].dt,
                                 args.medShift)

\* ---- claims about the batch operations

BatchOps == {"calc_velocity_wrapper", "get_stats_in_aoi", "stack_rasters"}

\* C13: calc_velocity_wrapper, get_stats_in_aoi and stack_rasters given a
\* matches argument that is neither a path nor a DataFrame fail with an error;
\* they do not return normally.
C13_OtherMatchesRejected ==
    (op \in BatchOps /\ args.matches.kind = "other")
        => (pc = "raised" /\ ret.kind = "error")

\* the records of the call whose |dt| is within max_dt days
WithinMaxDt == { p \in 1..Len(args.recs) : Abs(args.recs[p].dt) <= args.max_dt[1] }

\* C14: with max_dt given, get_stats_in_aoi keeps exactly the match records
\* with |dt| <= max_dt, in its loop and in the table it returns.
C14_MaxDtBoundsAbsoluteDt ==
    (op = "get_stats_in_aoi" /\ args.max_dt # None /\ pc # "returned") =>
        /\ { df[q].rec : q \in 1..Len(df) } = WithinMaxDt
        /\ pc = "done" =>
              { ret.table[l].rec[1] : l \in { k \in DOMAIN ret.table : ret.table[k].rec # None } }
                  = WithinMaxDt

PresentAt(p) == args.recs[df[p].rec].present

\* the mask of the call: the AOI on the grid of the file of row f
MaskOf(f) == Rasterize(args.recs[df[f].rec].file, args.invert)

\* C15: in AOI mode the mask is rasterized at most once per call, at the first
\* row whose file exists and on that file's grid; a temp file present during
\* the loop was written by this call; every row handled so far whose file
\* exists was handled after the rasterization and with that mask.
C15_MaskRasterizedOnce ==
    (op = "get_stats_in_aoi" /\ args.aoi /\ pc # "returned") =>
        /\ Len(rasterized) <= 1
        /\ temp # None => rasterized # << >>
        /\ rasterized # << >> =>
              /\ PresentAt(rasterized[1])
              /\ \A q \in 1..(rasterized[1] - 1) : ~PresentAt(q)
              /\ mask = Some(MaskOf(rasterized[1]))
              /\ temp = mask
        /\ \A p \in 1..Len(df) :
              (p < pos /\ PresentAt(p)) =>
                  /\ rasterized # << >> /\ rasterized[1] <= p
                  /\ df[p].label + 1 \in 1..Len(stats) =>
                        stats[df[p].label + 1] =
                            Flatten2(RecordStats(args.recs[df[p].rec].file, args.recs[df[p].rec].dt,
                                                 MaskOf(rasterized[1]), args))

\* a finished AOI call over two rows whose files exist: the mask was made at
\* the first row and is the one in place at the end
C15_Witness ==
    /\ op = "get_stats_in_aoi" /\ args.aoi /\ pc = "done"
    /\ Len(df) = 2 /\ PresentAt(1) /\ PresentAt(2)
    /\ rasterized = << 1 >> /\ mask = Some(MaskOf(1))

\* C16: no operation changes what the caller passed: the raster given to
\* offset_stats_pixel / offset_stats_aoi holds the same values after the call,
\* and a DataFrame given as matches has the same columns and rows.
C16_InputsNotMutated ==
    /\ op \in StatsOps => ret.r_after = args.r
    /\ (op \in BatchOps /\ args.matches.kind = "dataframe") =>
          frame = CallerFrame(args.matches, args.recs)

\* ---- claims about the median shift of stack_rasters

\* the array stack_rasters reads from a present file for the selector
Selected(file, what) ==
    Band(file, IF what \in {"velocity", "dx"} THEN 1 ELSE 2)

\* every present file's selected array has the median c, a number
CommonMedian(c) ==
    /\ IsNum(c)
    /\ \E p \in 1..Len(args.recs) : args.recs[p].present
    /\ \A p \in 1..Len(args.recs) :
          args.recs[p].present => NanMedian(Selected(args.recs[p].file, args.what).d) = c

\* the records with c taken off every pixel of the selected band: the baseline
Debias(recs, what, c) ==
    [p \in 1..Len(recs) |->
        IF ~recs[p].present THEN recs[p]
        ELSE IF what \in {"velocity", "dx"}
        THEN [recs[p] EXCEPT !.file.b1 = [k \in 1..Len(@) |-> FSub(@[k], c)]]
        ELSE [recs[p] EXCEPT !.file.b2 = [k \in 1..Len(@) |-> FSub(@[k], c)]]]

\* the stacked mean of a finished call with medShift is the stacked mean of
\* the unshifted baseline, for the selectors in `whats`
BiasRemoved(whats) ==
    (op = "stack_rasters" /\ args.matches.kind # "other" /\ args.what \in whats
     /\ args.medShift /\ pc = "done") =>
        \A p \in 1..Len(args.recs) :
            LET c == NanMedian(Selected(args.recs[p].file, args.what).d)
            IN  (args.recs[p].present /\ CommonMedian(c)) =>
                    comp[1].mean = ExpectedStack(Debias(args.recs, args.what, c),
                                                 args.what, FALSE).mean

\* C17 as the code has it: medShift removes a constant bias c off a
\* zero-median baseline for what = dx and what = dy; for what = velocity the
\* flag has no effect and the composite is that of the arrays as read.
C17_MedShiftRemovesBias ==
    /\ BiasRemoved({"dx", "dy"})
    /\ (op = "stack_rasters" /\ args.matches.kind # "other" /\ args.what = "velocity"
        /\ pc = "done") =>
          comp = Some(ExpectedStack(args.recs, "velocity", FALSE))

\* a finished dx stack with medShift over two present files that share a
\* non-zero median
C17_Witness ==
    /\ op = "stack_rasters" /\ args.what = "dx" /\ args.medShift /\ pc = "done"
    /\ Len(args.recs) = 2 /\ args.recs[1].present /\ args.recs[2].present
    /\ \E c \in { NanMedian(Selected(args.recs[1].file, "dx").d) } :
          CommonMedian(c) /\ c # U(0)
    /\ \E k \in 1..Len(comp[1].mean.d) : IsNum(comp[1].mean.d[k]) /\ comp[1].mean.d[k].v # 0

\* C17 as stated: medShift removes the bias for velocity as well as for dx
\* and dy.
C17_BiasRemovedForEverySelector == BiasRemoved({"velocity", "dx", "dy"})

\* ---- claims about the reduction and the saving of stack_rasters

\* the bearings of the records, in order
BearingsOf(recs) ==
    [p \in 1..Len(recs) |-> IF recs[p].present THEN recs[p].file.b2[1] ELSE NaN]

FourBearings == << U(10), U(20), U(350), U(0) >>

\* C18: the composite of stack_rasters holds, at every pixel, the circular
\* mean and circular std of the stacked values when what = direction and the
\* linear mean and std for every other selector; the bearings 10, 20, 350, 0
\* at one pixel give a direction mean near 0 (within 10 degrees), not their
\* linear mean of 95.
C18_CircularOnlyForDirection ==
    (op = "stack_rasters" /\ comp # None) =>
        /\ \A k \in 1..Len(comp[1].mean.d) :
              LET col == Column(lists.arrays, k)
              IN  IF args.what = "direction"
                  THEN /\ comp[1].mean.d[k] = CircMeanDeg(col)
                       /\ comp[1].std.d[k] = CircStdDeg(col)
                  ELSE /\ comp[1].mean.d[k] = NanMean(col)
                       /\ comp[1].std.d[k] = NanStd(col)
        /\ (args.what = "direction" /\ BearingsOf(args.recs) = FourBearings) =>
              /\ IsNum(comp[1].mean.d[1])
              /\ comp[1].mean.d[1].v >= 0 /\ comp[1].mean.d[1].v <= 10 * Q
              /\ NanMean(FourBearings) = U(95)

\* the direction stack of the four bearings is done, with a mean of 5 degrees
C18_Witness ==
    /\ op = "stack_rasters" /\ args.what = "direction" /\ pc = "done"
    /\ BearingsOf(args.recs) = FourBearings
    /\ comp[1].mean.d[1] = U(5)

\* the first row of df whose file exists is row p
FirstPresent(p) == PresentAt(p) /\ \A q \in 1..(p - 1) : ~PresentAt(q)

C20_InvalidSelectorEndsCleanly ==
    (op = "stack_rasters" /\ args.matches.kind # "other" /\ args.what \notin Selectors)
        => (pc # "raised" /\ written = << >>)

\* ---- claims about calc_velocity_wrapper

\* the records before position `upto`, in order, whose disparity file exists
\* and whose velocity file is to be written
RECURSIVE DueBefore(_, _, _)
DueBefore(recs, overwrite, upto) ==
    IF upto <= 1 THEN << >>
    ELSE DueBefore(recs, overwrite, upto - 1)
         \o (IF recs[upto - 1].present /\ (overwrite \/ ~recs[upto - 1].has_velocity)
             THEN << upto - 1 >> ELSE << >>)

\* C21: calc_velocity_wrapper handles the records in order; the velocity files
\* it has written and the paths it has collected are those of exactly the
\* records handled so far whose disparity file exists and for which overwrite
\* is set or no velocity file existed; it returns that list. With overwrite
\* off no existing velocity file is rewritten; when every disparity file has
\* its velocity file already, the list is empty and nothing is written; when
\* the call is over every disparity file has its velocity file.
C21_WrapperWritesWhatIsDue ==
    (op = "calc_velocity_wrapper" /\ args.matches.kind # "other") =>
        LET due == DueBefore(args.recs, args.overwrite, pos)
        IN  /\ out = due
            /\ Len(written) = Len(due)
            /\ \A j \in 1..Len(due) :
                  /\ written[j].path = due[j]
                  /\ written[j].data = CalcVelocity(args.recs[due[j]].file, args.recs[due[j]].dt,
                                                    None, args.medShift)
                  /\ args.overwrite \/ ~args.recs[due[j]].has_velocity
            /\ (~args.overwrite
                /\ \A p \in 1..Len(args.recs) :
                      args.recs[p].present => args.recs[p].has_velocity)
                  => (out = << >> /\ written = << >>)
            /\ pc = "done" =>
                  /\ ret = [kind |-> "ok", out |-> due]
                  /\ \A p \in 1..Len(args.recs) :
                        args.recs[p].present =>
                            (args.recs[p].has_velocity \/ \E j \in 1..Len(out) : out[j] = p)

\* a finished call with overwrite off over a disparity file that has its
\* velocity file and one that has not: only the second was written
C21_Witness ==
    /\ op = "calc_velocity_wrapper" /\ pc = "done" /\ ~args.overwrite
    /\ Len(args.recs) = 2
    /\ args.recs[1].present /\ args.recs[1].has_velocity
    /\ args.recs[2].present /\ ~args.recs[2].has_velocity
    /\ ret.out = << 2 >> /\ Len(written) = 1

\* ---- claims about the rows of the table of get_stats_in_aoi

\* C22: get_stats_in_aoi does not fail on the index of its input, and the
\* table it returns has exactly one row per match record kept, each with the
\* statistics computed from that record's own disparity file, for a path
\* input and for a DataFrame whose index is not 0..n-1.
C22_RowsCarryTheirOwnStatistics ==
    (op = "get_stats_in_aoi" /\ args.matches.kind # "other") =>
        /\ ~(pc = "raised" /\ ret.error = "IndexError")
        /\ pc = "done" =>
              /\ Cardinality(DOMAIN ret.table) = Len(df)
              /\ \A l \in DOMAIN ret.table :
                    /\ ret.table[l].rec # None
                    /\ \A p \in 1..Len(df) :
                          df[p].rec = ret.table[l].rec[1] =>
                              ret.table[l].stats = ExpectedRowStats(p)

====
